---- MODULE Spec2Model ----
(***************************************************************************)
(* Model of tools/generate_manifest.py: scan a folder of PDFs, copy each   *)
(* to <site-root>/pdfs/<IATA>/<SHA256>.pdf, and write the latest manifest  *)
(* and a timestamped snapshot.                                             *)
(*                                                                         *)
(* Strings the code transforms (file names, identifiers, template values)  *)
(* are sequences of code points, so that strip/upper/stem/sorting are      *)
(* computed as Python computes them.  Times are whole seconds since the    *)
(* epoch.  A file's bytes are a short sequence of numbers, and its SHA-256  *)
(* digest is a value that determines and is determined by the bytes.       *)
(*                                                                         *)
(* The wall clock is read twice per run (build_manifest's now, main's ts); *)
(* each reading finds the second of the previous reading or the next one.  *)
(*                                                                         *)
(* Left out: --base-url (it adds one field to the manifest), a template    *)
(* file that cannot be opened or parsed, and I/O errors during a copy or   *)
(* a write.                                                                *)
(***************************************************************************)
EXTENDS Integers, Sequences, FiniteSets, TLC

VARIABLES
    srcExists,     \* does the --source-pdfs folder exist
    source,        \* the folder: path (sequence of parts) -> [isFile, content, mtime]
    template,      \* the --template file, or NoTemplate
    tsArg,         \* the --timestamp argument, or NoArg
    clock,         \* wall clock, in seconds
    siteDirs,      \* directories under --site-root (<<>> is the root itself)
    sitePdfs,      \* files under <site-root>/pdfs: <<"pdfs", iata, sha>> -> file
    siteJson,      \* manifest files: [dir, name, tmp] -> [stage, obj]
    pc,            \* position of the run
    pdfs,          \* scan_pdfs' result: PdfInfo records in insertion order
    items,         \* the list build_manifest iterates
    idx,           \* index of the next item of that list
    airports_out,  \* build_manifest's airports_out
    now,           \* build_manifest's now
    manifest,      \* the manifest main holds
    ts,            \* main's ts
    wpath,         \* write_json's path
    runs,          \* number of the current run
    edited,        \* has the source folder been changed since the last run
    siteAtStart,   \* the site root when the current run started
    prevRun        \* inputs and outputs of the last successful earlier run

vars == <<srcExists, source, template, tsArg, clock, siteDirs, sitePdfs, siteJson,
          pc, pdfs, items, idx, airports_out, now, manifest, ts, wpath,
          runs, edited, siteAtStart, prevRun>>

\* ------------------------------------------------------------------ bounds

MaxRuns == 2
MaxTemplateLen == 2

SCHEMA_VERSION == 1

\* ----------------------------------------------------------------- strings

\* str.upper on one code point (ASCII letters)
UpperChar(c) == IF c >= 97 /\ c <= 122 THEN c - 32 ELSE c

\* the characters str.strip removes
IsSpace(c) == c \in {9, 10, 11, 12, 13, 28, 29, 30, 31, 32}

RECURSIVE upper(_)
upper(s) == IF s = <<>> THEN <<>> ELSE <<UpperChar(Head(s))>> \o upper(Tail(s))

RECURSIVE lstrip(_)
lstrip(s) == IF s # <<>> /\ IsSpace(Head(s)) THEN lstrip(Tail(s)) ELSE s

RECURSIVE rstrip(_)
rstrip(s) ==
    IF s # <<>> /\ IsSpace(s[Len(s)]) THEN rstrip(SubSeq(s, 1, Len(s) - 1)) ELSE s

strip(s) == rstrip(lstrip(s))

\* a < b for strings, by code point
RECURSIVE StrLess(_, _)
StrLess(a, b) ==
    IF b = <<>> THEN FALSE
    ELSE IF a = <<>> THEN TRUE
    ELSE IF Head(a) # Head(b) THEN Head(a) < Head(b)
    ELSE StrLess(Tail(a), Tail(b))

\* p < q for paths: part by part, as pathlib orders Path objects
RECURSIVE PathLess(_, _)
PathLess(p, q) ==
    IF q = <<>> THEN FALSE
    ELSE IF p = <<>> THEN TRUE
    ELSE IF Head(p) # Head(q) THEN StrLess(Head(p), Head(q))
    ELSE PathLess(Tail(p), Tail(q))

\* the name of a path, and PurePath.stem: the name without its last suffix
PathName(p) == p[Len(p)]

LastDot(n) ==
    LET D == {i \in 1..Len(n) : n[i] = 46}
    IN  IF D = {} THEN 0 ELSE CHOOSE i \in D : \A j \in D : j <= i

stem(n) ==
    LET i == LastDot(n)
    IN  IF i > 1 /\ i < Len(n) THEN SubSeq(n, 1, i - 1) ELSE n

\* does a name match the pattern *.pdf
MatchesPdf(n) ==
    /\ Len(n) >= 4
    /\ SubSeq(n, Len(n) - 3, Len(n)) = <<46, 112, 100, 102>>

safe_iata_from_filename(p) == upper(strip(stem(PathName(p))))

\* ------------------------------------------------------------------- times

\* iso_z: YYYY-MM-DDTHH:MM:SSZ, as its date part and its time-of-day part
iso_z(t) == [fmt |-> "iso", date |-> t \div 86400, time |-> t % 86400]

\* iso_z(...)[:10]: the date part
Version(iso) == iso.date

\* strftime("%Y%m%d-%H%M%S")
strftime(t) == [fmt |-> "compact", date |-> t \div 86400, time |-> t % 86400]

\* ------------------------------------------------------------------- files

sha256_file(content) == [sha256 |-> content]

\* ---------------------------------------------------------------- scan_pdfs

\* sorted(...): the paths of a set in ascending order
RECURSIVE sorted_paths(_)
sorted_paths(S) ==
    IF S = {} THEN <<>>
    ELSE LET m == CHOOSE p \in S : \A q \in S : q = p \/ PathLess(p, q)
         IN  <<m>> \o sorted_paths(S \ {m})

\* source_dir.rglob("*.pdf")
rglob_pdf(dir) == {p \in DOMAIN dir : MatchesPdf(PathName(p))}

\* iata in pdf_map
HasKey(pdf_map, iata) == \E i \in 1..Len(pdf_map) : pdf_map[i].iata = iata

\* pdf_map[iata] / pdfs.get(iata), for a key the mapping holds
Lookup(pdf_map, iata) ==
    pdf_map[CHOOSE i \in 1..Len(pdf_map) : pdf_map[i].iata = iata]

PdfInfo(iata, p, f) ==
    [iata |-> iata, src_path |-> p, sha256 |-> sha256_file(f.content),
     size |-> Len(f.content), mtime |-> f.mtime]

\* scan_step without the duplicate check: a later file replaces the record
scan_step_keep_last(dir, pdf_map, p) ==
    LET iata == safe_iata_from_filename(p)
    IN  IF ~dir[p].isFile THEN pdf_map
        ELSE IF iata = <<>> THEN pdf_map
        ELSE IF HasKey(pdf_map, iata)
             THEN [i \in 1..Len(pdf_map) |->
                      IF pdf_map[i].iata = iata THEN PdfInfo(iata, p, dir[p])
                      ELSE pdf_map[i]]
        ELSE Append(pdf_map, PdfInfo(iata, p, dir[p]))

\* one turn of scan_pdfs' loop, for path p
scan_step(dir, pdf_map, p) ==
    LET iata == safe_iata_from_filename(p)
    IN  IF ~dir[p].isFile THEN pdf_map
        ELSE IF iata = <<>> THEN pdf_map
        ELSE IF HasKey(pdf_map, iata) THEN pdf_map
        ELSE Append(pdf_map, PdfInfo(iata, p, dir[p]))

RECURSIVE scan_loop(_, _, _)
scan_loop(dir, pdf_map, ps) ==
    IF ps = <<>> THEN pdf_map
    ELSE scan_loop(dir, scan_step(dir, pdf_map, Head(ps)), Tail(ps))

\* scan_pdfs without the check for an empty result
scan_pdfs_allow_empty(exists, dir) ==
    IF ~exists THEN [err |-> "FileNotFoundError", pdf_map |-> <<>>]
    ELSE [err |-> "", pdf_map |-> scan_loop(dir, <<>>, sorted_paths(rglob_pdf(dir)))]

\* scan_pdfs: the mapping, or the error it raises
scan_pdfs(exists, dir) ==
    IF ~exists THEN [err |-> "FileNotFoundError", pdf_map |-> <<>>]
    ELSE LET m == scan_loop(dir, <<>>, sorted_paths(rglob_pdf(dir)))
         IN  IF m = <<>> THEN [err |-> "RuntimeError", pdf_map |-> <<>>]
             ELSE [err |-> "", pdf_map |-> m]

\* ------------------------------------------------- copy_pdf_to_immutable_path

\* Path("pdfs") / pdf.iata / f"{pdf.sha256}.pdf"
RelPath(pdf) == <<"pdfs", pdf.iata, pdf.sha256>>

\* the directories dst.parent.mkdir(parents=True, exist_ok=True) leaves present
copy_mkdir(dirs, pdf) == dirs \cup {<<>>, <<"pdfs">>, <<"pdfs", pdf.iata>>}

\* copy_files with the existence test inverted: nothing is copied to a free path
copy_files_inverted(files, pdf, src) ==
    IF RelPath(pdf) \notin DOMAIN files THEN files
    ELSE [k \in DOMAIN files |-> IF k = RelPath(pdf) THEN src ELSE files[k]]

\* copy_files without the existence test: an existing file is overwritten
copy_files_always(files, pdf, src) ==
    [k \in DOMAIN files \cup {RelPath(pdf)} |->
        IF k = RelPath(pdf) THEN src ELSE files[k]]

\* the files under pdfs/ after the call; src is the file at pdf.src_path
copy_files(files, pdf, src) ==
    IF RelPath(pdf) \in DOMAIN files THEN files
    ELSE [k \in DOMAIN files \cup {RelPath(pdf)} |->
             IF k = RelPath(pdf) THEN src ELSE files[k]]

\* the value the call returns
copy_result(pdf) == RelPath(pdf)

\* ------------------------------------------------------ normalize_airport_dict

\* out[k] = v
setitem(d, k, v) == [x \in DOMAIN d \cup {k} |-> IF x = k THEN v ELSE d[x]]

\* out.setdefault(k, v)
setdefault(d, k, v) == IF k \in DOMAIN d THEN d ELSE setitem(d, k, v)

\* normalize_airport_dict assigning "name" instead of defaulting it
normalize_airport_dict_overwrite(airport, iata) ==
    setdefault(setitem(setdefault(setitem(airport, "iata", iata),
        "icao", iata), "name", iata), "city", <<>>)

normalize_airport_dict(airport, iata) ==
    setdefault(setdefault(setdefault(setitem(airport, "iata", iata),
        "icao", iata), "name", iata), "city", <<>>)

\* pdf_block stamped with the time of the run instead of the file's
pdf_block_now(rel_url, pdf) ==
    [url |-> rel_url, sha256 |-> pdf.sha256, size |-> pdf.size,
     updatedAt |-> iso_z(clock), version |-> Version(iso_z(clock))]

\* the "pdf" block of an entry
pdf_block(rel_url, pdf) ==
    [url |-> rel_url, sha256 |-> pdf.sha256, size |-> pdf.size,
     updatedAt |-> iso_z(pdf.mtime), version |-> Version(iso_z(pdf.mtime))]

\* str(a.get("iata", "")).strip().upper()
template_iata(a) == upper(strip(IF "iata" \in DOMAIN a THEN a["iata"] ELSE <<>>))

\* the entry the template branch appends for a matched template entry
template_entry(a, iata, rel_url, pdf) ==
    setitem(normalize_airport_dict(a, iata), "pdf", pdf_block(rel_url, pdf))

\* the entry the no-template branch appends
minimal_entry(iata, rel_url, pdf) ==
    [k \in {"iata", "icao", "name", "city", "pdf"} |->
        IF k = "city" THEN <<>>
        ELSE IF k = "pdf" THEN pdf_block(rel_url, pdf)
        ELSE iata]

\* pdfs.items() unsorted: the keys in insertion order
insertion_keys(pdf_map) == [i \in 1..Len(pdf_map) |-> pdf_map[i].iata]

\* sorted(pdfs.items(), key=lambda kv: kv[0]): the keys in ascending order
RECURSIVE sorted_keys(_)
sorted_keys(pdf_map) ==
    IF pdf_map = <<>> THEN <<>>
    ELSE LET m == CHOOSE i \in 1..Len(pdf_map) :
                     \A j \in 1..Len(pdf_map) :
                        j = i \/ StrLess(pdf_map[i].iata, pdf_map[j].iata)
             rest == [k \in 1..(Len(pdf_map) - 1) |->
                         IF k < m THEN pdf_map[k] ELSE pdf_map[k + 1]]
         IN  <<pdf_map[m].iata>> \o sorted_keys(rest)

\* ------------------------------------------------------------------ write_json

NoStamp == [fmt |-> "none", date |-> 0, time |-> 0]

\* site_root / "manifest.json"
LatestPath == [snap |-> FALSE, ts |-> NoStamp, tmp |-> FALSE]

\* site_root / "manifests" / f"manifest-{ts}.json"
SnapshotPath(t) == [snap |-> TRUE, ts |-> t, tmp |-> FALSE]

\* path.with_suffix(path.suffix + ".tmp")
TmpPath(path) == [path EXCEPT !.tmp = TRUE]

\* the directories path.parent.mkdir(parents=True, exist_ok=True) leaves present
write_mkdir(dirs, path) ==
    dirs \cup (IF path.snap THEN {<<>>, <<"manifests">>} ELSE {<<>>})

\* write_json serializing straight into the final path
write_target_in_place(path) == path

\* the file write_json writes into while it serializes obj
write_target(path) == TmpPath(path)

\* files with the file at path k holding c
PutFile(files, k, c) == [x \in DOMAIN files \cup {k} |-> IF x = k THEN c ELSE files[x]]

\* tmp.replace(path): the rename
rename(files, from, to) ==
    [x \in (DOMAIN files \ {from}) \cup {to} |-> IF x = to THEN files[from] ELSE files[x]]

\* ---------------------------------------------------------------------- inputs

\* candidate entries of the source folder: the files " a.pdf", "B.pdf",
\* "sub/a.pdf", " .pdf" and "B.txt", and a directory named "C.pdf"
CandidatePaths ==
    << << <<32, 97, 46, 112, 100, 102>> >>,
       << <<66, 46, 112, 100, 102>> >>,
       << <<115, 117, 98>>, <<97, 46, 112, 100, 102>> >>,
       << <<32, 46, 112, 100, 102>> >>,
       << <<66, 46, 116, 120, 116>> >>,
       << <<67, 46, 112, 100, 102>> >> >>

PathSet == {CandidatePaths[i] : i \in 1..Len(CandidatePaths)}

PathIndex(p) == CHOOSE i \in 1..Len(CandidatePaths) : CandidatePaths[i] = p

\* the file first found at a path, and the file after it has been rewritten
FileV1(p) ==
    IF p = CandidatePaths[6]
       THEN [isFile |-> FALSE, content |-> <<>>, mtime |-> PathIndex(p)]
       ELSE [isFile |-> TRUE, content |-> <<PathIndex(p)>>, mtime |-> PathIndex(p)]
FileV2(p) ==
    [isFile |-> TRUE, content |-> <<PathIndex(p), PathIndex(p)>>,
     mtime |-> 86400 + PathIndex(p)]

EmptyDir == [p \in {} |-> FileV1(p)]

\* a stale "pdf" block, as a template copied from an older manifest carries
StaleBlock ==
    [url |-> <<"pdfs", <<66>>, sha256_file(<<0>>)>>, sha256 |-> sha256_file(<<0>>),
     size |-> 7, updatedAt |-> iso_z(0), version |-> 0]

\* template entries: {"iata": " a"}; {"iata": "B", "icao": "KB", "name": "Bn",
\* "city": "Bc", "pdf": {...}}; {"iata": "C"}; {"name": "Xn"}; and a non-object
Dict(d) == [isDict |-> TRUE, d |-> d]
TemplateEntries ==
    { Dict([k \in {"iata"} |-> <<32, 97>>]),
      Dict([k \in {"iata", "icao", "name", "city", "pdf"} |->
              CASE k = "iata" -> <<66>>
                [] k = "icao" -> <<75, 66>>
                [] k = "name" -> <<66, 110>>
                [] k = "city" -> <<66, 99>>
                [] k = "pdf"  -> StaleBlock]),
      Dict([k \in {"iata"} |-> <<67>>]),
      Dict([k \in {"name"} |-> <<88, 110>>]),
      [isDict |-> FALSE, d |-> [k \in {} |-> <<>>]] }

RECURSIVE SeqsUpTo(_, _)
SeqsUpTo(S, n) ==
    IF n = 0 THEN {<<>>}
    ELSE LET R == SeqsUpTo(S, n - 1)
         IN  R \cup {Append(r, x) : r \in {q \in R : Len(q) = n - 1}, x \in S}

NoTemplate == [kind |-> "none", airports |-> <<>>]
Templates(n) ==
    {NoTemplate, [kind |-> "missing", airports |-> <<>>],
     [kind |-> "notlist", airports |-> <<>>]}
    \cup {[kind |-> "list", airports |-> a] : a \in SeqsUpTo(TemplateEntries, n)}

TsArgs == {NoStamp, strftime(0)}

\* main's manifest before build_manifest has returned
NoManifest == [schemaVersion |-> 0, generatedAt |-> iso_z(0), airports |-> <<>>]

\* a manifest an earlier publication left at the site root
OldManifest ==
    [schemaVersion |-> SCHEMA_VERSION, generatedAt |-> iso_z(0), airports |-> <<>>]

NoFiles == [k \in {} |-> FileV1(CandidatePaths[1])]
NoJson == [k \in {} |-> [stage |-> "complete", obj |-> NoManifest]]

\* a site root that does not exist yet, and one that already holds a manifest and,
\* at the content-addressed path of " a.pdf", a file with other bytes
Sites ==
    { [dirs |-> {}, pdfs |-> NoFiles, json |-> NoJson],
      [dirs |-> {<<>>, <<"pdfs">>, <<"pdfs", <<65>>>>},
       pdfs |-> [k \in {<<"pdfs", <<65>>, sha256_file(<<1>>)>>} |->
                    [isFile |-> TRUE, content |-> <<0>>, mtime |-> 0]],
       json |-> [k \in {LatestPath} |-> [stage |-> "complete", obj |-> OldManifest]]] }

Site == [dirs |-> siteDirs, pdfs |-> sitePdfs, json |-> siteJson]

NoRun == [valid |-> FALSE, srcExists |-> FALSE, source |-> EmptyDir,
          template |-> NoTemplate, airports |-> <<>>, pdfs |-> NoFiles]

\* ------------------------------------------------------------------------ Init

InitInputs(paths, n, stamps) ==
    /\ srcExists \in BOOLEAN
    /\ \E S \in SUBSET paths :
          /\ srcExists \/ S = {}
          /\ source = [p \in S |-> FileV1(p)]
    /\ template \in Templates(n)
    /\ tsArg \in stamps
    /\ \E s \in Sites :
          /\ siteDirs = s.dirs
          /\ sitePdfs = s.pdfs
          /\ siteJson = s.json
          /\ siteAtStart = s

InitLocals ==
    /\ clock = 0
    /\ pc = "start"
    /\ pdfs = <<>>
    /\ items = <<>>
    /\ idx = 1
    /\ airports_out = <<>>
    /\ now = 0
    /\ manifest = NoManifest
    /\ ts = NoStamp
    /\ wpath = LatestPath
    /\ runs = 1
    /\ edited = FALSE
    /\ prevRun = NoRun

\* one run without --timestamp, over every folder of the candidate entries
InitSingle == InitInputs(PathSet, MaxTemplateLen, {NoStamp}) /\ InitLocals

\* the files of the folders that are published more than once
RerunPaths == {CandidatePaths[1], CandidatePaths[2]}

\* runs of one command line, with or without --timestamp
Init == InitInputs(RerunPaths, MaxTemplateLen - 1, TsArgs) /\ InitLocals

inputs == <<srcExists, source, template, tsArg>>
site == <<siteDirs, sitePdfs, siteJson>>
history == <<runs, edited, siteAtStart, prevRun>>
build == <<items, idx, airports_out, now>>

\* ------------------------------------------------------------------------ main

\* main, line 245: pdfs = scan_pdfs(source_dir); an error ends the run
main_scan ==
    /\ pc = "start"
    /\ LET r == scan_pdfs(srcExists, source)
       IN  IF r.err # "" THEN pc' = "error" /\ pdfs' = <<>>
           ELSE pc' = "build" /\ pdfs' = r.pdf_map
    /\ UNCHANGED <<inputs, site, history, build, clock, manifest, ts, wpath>>

\* build_manifest, no template: now is read and the sorted items are listed
build_manifest_minimal ==
    /\ pc = "build"
    /\ template.kind = "none"
    /\ \E t \in {clock, clock + 1} : clock' = t /\ now' = t
    /\ items' = sorted_keys(pdfs)
    /\ idx' = 1
    /\ airports_out' = <<>>
    /\ pc' = "loop_sorted"
    /\ UNCHANGED <<inputs, site, history, pdfs, manifest, ts, wpath>>

\* the template's entries in reverse order
template_items_reversed(t) ==
    [i \in 1..Len(t.airports) |-> t.airports[Len(t.airports) + 1 - i]]

\* the list build_manifest iterates when a template is given
template_items(t) == t.airports

\* build_manifest, template given: now is read, the template loaded and checked
build_manifest_template ==
    /\ pc = "build"
    /\ template.kind = "list"
    /\ \E t \in {clock, clock + 1} : clock' = t /\ now' = t
    /\ items' = template_items(template)
    /\ idx' = 1
    /\ airports_out' = <<>>
    /\ pc' = "loop_template"
    /\ UNCHANGED <<inputs, site, history, pdfs, manifest, ts, wpath>>

\* build_manifest, template without an "airports" list: ValueError
build_manifest_template_error ==
    /\ pc = "build"
    /\ template.kind \in {"missing", "notlist"}
    /\ \E t \in {clock, clock + 1} : clock' = t /\ now' = t
    /\ pc' = "error"
    /\ UNCHANGED <<inputs, site, history, pdfs, items, idx, airports_out,
                   manifest, ts, wpath>>

\* one turn of the template loop that skips its entry
build_manifest_template_skip ==
    /\ pc = "loop_template"
    /\ idx <= Len(items)
    /\ LET a == items[idx]
       IN  \/ ~a.isDict
           \/ a.isDict /\ template_iata(a.d) = <<>>
           \/ a.isDict /\ template_iata(a.d) # <<>> /\ ~HasKey(pdfs, template_iata(a.d))
    /\ idx' = idx + 1
    /\ UNCHANGED <<inputs, site, history, pdfs, items, airports_out, now,
                   clock, manifest, ts, wpath, pc>>

\* one turn of the template loop for a matched entry: copy, merge, append
build_manifest_template_step ==
    /\ pc = "loop_template"
    /\ idx <= Len(items)
    /\ items[idx].isDict
    /\ LET a == items[idx].d
           iata == template_iata(a)
       IN  /\ iata # <<>>
           /\ HasKey(pdfs, iata)
           /\ LET pdf == Lookup(pdfs, iata)
              IN  /\ siteDirs' = copy_mkdir(siteDirs, pdf)
                  /\ sitePdfs' = copy_files(sitePdfs, pdf, source[pdf.src_path])
                  /\ airports_out' =
                        Append(airports_out,
                               template_entry(a, iata, copy_result(pdf), pdf))
    /\ idx' = idx + 1
    /\ UNCHANGED <<inputs, siteJson, history, pdfs, items, now, clock, manifest,
                   ts, wpath, pc>>

\* one turn of the no-template loop: copy, append
build_manifest_minimal_step ==
    /\ pc = "loop_sorted"
    /\ idx <= Len(items)
    /\ LET iata == items[idx]
           pdf == Lookup(pdfs, iata)
       IN  /\ siteDirs' = copy_mkdir(siteDirs, pdf)
           /\ sitePdfs' = copy_files(sitePdfs, pdf, source[pdf.src_path])
           /\ airports_out' =
                 Append(airports_out, minimal_entry(iata, copy_result(pdf), pdf))
    /\ idx' = idx + 1
    /\ UNCHANGED <<inputs, siteJson, history, pdfs, items, now, clock, manifest,
                   ts, wpath, pc>>

\* build_manifest returns the manifest
build_manifest_return ==
    /\ pc \in {"loop_template", "loop_sorted"}
    /\ idx > Len(items)
    /\ manifest' = [schemaVersion |-> SCHEMA_VERSION, generatedAt |-> iso_z(now),
                    airports |-> airports_out]
    /\ pc' = "timestamp"
    /\ UNCHANGED <<inputs, site, history, pdfs, build, clock, ts, wpath>>

\* main, lines 250-258: the two paths; ts is the argument or the current time
main_timestamp ==
    /\ pc = "timestamp"
    /\ IF tsArg # NoStamp
          THEN ts' = tsArg /\ clock' = clock
          ELSE \E t \in {clock, clock + 1} : clock' = t /\ ts' = strftime(t)
    /\ wpath' = LatestPath
    /\ pc' = "w_mkdir"
    /\ UNCHANGED <<inputs, site, history, pdfs, build, manifest>>

\* write_json: path.parent.mkdir(parents=True, exist_ok=True)
write_json_mkdir ==
    /\ pc = "w_mkdir"
    /\ siteDirs' = write_mkdir(siteDirs, wpath)
    /\ pc' = "w_open"
    /\ UNCHANGED <<inputs, sitePdfs, siteJson, history, pdfs, build, clock,
                   manifest, ts, wpath>>

\* write_json: tmp.open("w") creates or truncates the file
write_json_open ==
    /\ pc = "w_open"
    /\ siteJson' = PutFile(siteJson, write_target(wpath),
                           [stage |-> "empty", obj |-> manifest])
    /\ pc' = "w_dump"
    /\ UNCHANGED <<inputs, siteDirs, sitePdfs, history, pdfs, build, clock,
                   manifest, ts, wpath>>

\* write_json: json.dump has written part of the text
write_json_dump ==
    /\ pc = "w_dump"
    /\ siteJson' = PutFile(siteJson, write_target(wpath),
                           [stage |-> "partial", obj |-> manifest])
    /\ pc' = "w_close"
    /\ UNCHANGED <<inputs, siteDirs, sitePdfs, history, pdfs, build, clock,
                   manifest, ts, wpath>>

\* write_json: the rest of the text and the newline are written, the file closed
write_json_close ==
    /\ pc = "w_close"
    /\ siteJson' = PutFile(siteJson, write_target(wpath),
                           [stage |-> "complete", obj |-> manifest])
    /\ pc' = "w_replace"
    /\ UNCHANGED <<inputs, siteDirs, sitePdfs, history, pdfs, build, clock,
                   manifest, ts, wpath>>

\* write_json: tmp.replace(path); main goes on to the snapshot, then returns
write_json_replace ==
    /\ pc = "w_replace"
    /\ siteJson' = rename(siteJson, write_target(wpath), wpath)
    /\ IF wpath = LatestPath
          THEN wpath' = SnapshotPath(ts) /\ pc' = "w_mkdir"
          ELSE wpath' = wpath /\ pc' = "done"
    /\ UNCHANGED <<inputs, siteDirs, sitePdfs, history, pdfs, build, clock,
                   manifest, ts>>

\* ----------------------------------------------------------------- environment

\* the operator runs the same command again
rerun ==
    /\ pc \in {"done", "error"}
    /\ runs < MaxRuns
    /\ runs' = runs + 1
    /\ siteAtStart' = Site
    /\ prevRun' = IF pc = "done"
                     THEN [valid |-> TRUE, srcExists |-> srcExists, source |-> source,
                           template |-> template, airports |-> manifest.airports,
                           pdfs |-> sitePdfs]
                     ELSE prevRun
    /\ pc' = "start"
    /\ pdfs' = <<>>
    /\ items' = <<>>
    /\ idx' = 1
    /\ airports_out' = <<>>
    /\ now' = 0
    /\ manifest' = NoManifest
    /\ ts' = NoStamp
    /\ wpath' = LatestPath
    /\ edited' = FALSE
    /\ UNCHANGED <<inputs, site, clock>>

\* between two runs a file of the source folder is added, rewritten or removed
edit_source ==
    /\ pc = "start"
    /\ runs > 1
    /\ ~edited
    /\ srcExists
    /\ edited' = TRUE
    /\ \E p \in RerunPaths :
          \/ /\ p \in DOMAIN source
             /\ source' = [q \in DOMAIN source \ {p} |-> source[q]]
          \/ /\ source' = [q \in DOMAIN source \cup {p} |->
                              IF q = p THEN FileV2(p) ELSE source[q]]
             /\ source' # source
    /\ UNCHANGED <<srcExists, template, tsArg, site, clock, pc, pdfs, build,
                   manifest, ts, wpath, runs, siteAtStart, prevRun>>

Run ==
    \/ main_scan
    \/ build_manifest_minimal
    \/ build_manifest_template
    \/ build_manifest_template_error
    \/ build_manifest_template_skip
    \/ build_manifest_template_step
    \/ build_manifest_minimal_step
    \/ build_manifest_return
    \/ main_timestamp
    \/ write_json_mkdir
    \/ write_json_open
    \/ write_json_dump
    \/ write_json_close
    \/ write_json_replace

Next == Run \/ rerun \/ edit_source

Spec == Init /\ [][Next]_vars

SpecSingle == InitSingle /\ [][Run]_vars

\* ---------------------------------------------------------------------- claims

\* the run has reached main's writes
Writing == pc \in {"w_mkdir", "w_open", "w_dump", "w_close", "w_replace", "done"}

\* build_manifest has returned
Built == pc = "timestamp" \/ Writing

\* the files of the source folder that the scan's pattern matches
Matching == {p \in DOMAIN source : source[p].isFile /\ MatchesPdf(PathName(p))}

IdOf(p) == safe_iata_from_filename(p)

\* the first path, in the scan's order, whose identifier is id
FirstPath(id) ==
    CHOOSE p \in Matching :
        /\ IdOf(p) = id
        /\ \A q \in Matching : (IdOf(q) = id /\ q # p) => PathLess(p, q)

\* the positions of a sequence of entries whose identifier is id
EntriesFor(entries, id) == {i \in 1..Len(entries) : entries[i]["iata"] = id}

\* C1: from the first step of the first write_json on, every entry of the manifest
\* being written, and of every manifest file at the site root, has a pdf.url at
\* which a file exists under the site root.
C1_UrlsExistWhenWritten ==
    /\ Writing =>
          \A i \in 1..Len(manifest.airports) :
             manifest.airports[i]["pdf"].url \in DOMAIN sitePdfs
    /\ \A k \in DOMAIN siteJson :
          \A i \in 1..Len(siteJson[k].obj.airports) :
             siteJson[k].obj.airports[i]["pdf"].url \in DOMAIN sitePdfs

C1_Witness ==
    /\ pc = "w_open"
    /\ wpath = LatestPath
    /\ template.kind = "list"
    /\ Len(manifest.airports) = 2
    /\ sitePdfs # siteAtStart.pdfs

\* the scan finds no document: no matching file has a non-empty identifier
NoDocuments == \A p \in Matching : IdOf(p) = <<>>

\* C2: a run whose source folder is missing, whose scan finds no document, or whose
\* template has no "airports" list never gets past the failing step, whose only
\* outcome is the error state, and the site root stays as it was when the run
\* started: nothing copied, no directory made, no manifest written.
C2_FailedRunLeavesSite ==
    /\ [](/\ (~srcExists \/ NoDocuments) => pc \in {"start", "error"}
          /\ template.kind \in {"missing", "notlist"}
                => pc \in {"start", "build", "error"}
          /\ (~srcExists \/ NoDocuments \/ template.kind \in {"missing", "notlist"})
                => Site = siteAtStart
          /\ pc = "error" => Site = siteAtStart)
    /\ [][/\ (pc = "start" /\ (~srcExists \/ NoDocuments)) => pc' = "error"
          /\ (pc = "build" /\ template.kind \in {"missing", "notlist"})
                => pc' = "error"]_vars

C2_Witness ==
    /\ pc = "error"
    /\ srcExists
    /\ Matching # {}
    /\ NoDocuments
    /\ template.kind = "none"
    /\ siteAtStart.pdfs # NoFiles

\* C3: no step changes or removes a snapshot manifest that is already at the site
\* root.
C3_SnapshotImmutable ==
    [][\A k \in DOMAIN siteJson :
          (k.snap /\ ~k.tmp) => (k \in DOMAIN siteJson' /\ siteJson'[k] = siteJson[k])]_vars

\* C4: at every step of write_json, each final manifest path holds a completely
\* written file, which is the file it held when the run started or the manifest of
\* this run; a path that held a file when the run started still holds one.
C4_FinalPathNeverPartial ==
    /\ \A k \in DOMAIN siteJson :
          ~k.tmp =>
             /\ siteJson[k].stage = "complete"
             /\ \/ k \in DOMAIN siteAtStart.json /\ siteJson[k] = siteAtStart.json[k]
                \/ Writing /\ siteJson[k] = [stage |-> "complete", obj |-> manifest]
    /\ \A k \in DOMAIN siteAtStart.json : ~k.tmp => k \in DOMAIN siteJson

C4_Witness ==
    /\ pc = "w_close"
    /\ wpath = LatestPath
    /\ siteJson[TmpPath(LatestPath)].stage = "partial"
    /\ LatestPath \in DOMAIN siteJson
    /\ siteJson[LatestPath].obj # manifest

\* C5: when a run completes after an earlier completed run with the same source
\* folder and template, the files under pdfs/ are those the earlier run left and
\* the manifest's airports list is the earlier run's.
C5_RerunIdempotent ==
    (/\ pc = "done"
     /\ prevRun.valid
     /\ prevRun.srcExists = srcExists
     /\ prevRun.source = source
     /\ prevRun.template = template)
        => /\ sitePdfs = prevRun.pdfs
           /\ manifest.airports = prevRun.airports

C5_Witness ==
    /\ pc = "done"
    /\ prevRun.valid
    /\ prevRun.source = source
    /\ prevRun.template = template
    /\ Len(manifest.airports) >= 1
    /\ now > 0
    /\ Cardinality(DOMAIN sitePdfs) >= 2

\* every matching file has a non-empty identifier that no other matching file has
DistinctIds ==
    \A p \in Matching :
        /\ IdOf(p) # <<>>
        /\ \A q \in Matching : q # p => IdOf(q) # IdOf(p)

\* C6: without a template, over a folder of N documents with distinct non-empty
\* identifiers, the manifest has N entries, one per identifier, in ascending order.
C6_MinimalManifestSorted ==
    (Built /\ template.kind = "none" /\ DistinctIds)
        => LET out == manifest.airports
           IN  /\ Len(out) = Cardinality(Matching)
               /\ {out[i]["iata"] : i \in 1..Len(out)} = {IdOf(p) : p \in Matching}
               /\ \A i \in 1..Len(out) : \A j \in 1..Len(out) :
                     i < j => StrLess(out[i]["iata"], out[j]["iata"])

C6_Witness ==
    /\ pc = "done"
    /\ template.kind = "none"
    /\ Matching = {CandidatePaths[2], CandidatePaths[3]}
    /\ Len(manifest.airports) = 2

\* the identifiers that at least two matching files normalize to
DuplicatedIds ==
    {IdOf(p) : p \in {x \in Matching :
                        IdOf(x) # <<>> /\ \E q \in Matching : q # x /\ IdOf(q) = IdOf(x)}}

\* an entry carries the hash, size and update time of the file at path p
CarriesFile(e, p) ==
    /\ e["pdf"].sha256 = sha256_file(source[p].content)
    /\ e["pdf"].size = Len(source[p].content)
    /\ e["pdf"].updatedAt = iso_z(source[p].mtime)

\* C7 as stated: for an identifier two files normalize to, the manifest of a
\* completed run has exactly one entry, carrying the first path's file.
C7_OneEntryPerDuplicate ==
    pc = "done" =>
        \A id \in DuplicatedIds :
            /\ Cardinality(EntriesFor(manifest.airports, id)) = 1
            /\ \A i \in EntriesFor(manifest.airports, id) :
                  CarriesFile(manifest.airports[i], FirstPath(id))

\* C7, amended: for an identifier two files normalize to, the scan keeps exactly
\* one record, that of the first path; every manifest entry for the identifier
\* carries that file's hash, size and update time; without a template there is
\* exactly one such entry, and with a template one per template entry naming it.
C7_DuplicateKeepsFirst ==
    pc \notin {"start", "error"} =>
      \A id \in DuplicatedIds :
        LET first == FirstPath(id)
        IN
        /\ Cardinality({i \in 1..Len(pdfs) : pdfs[i].iata = id}) = 1
        /\ \A i \in 1..Len(pdfs) : pdfs[i].iata = id => pdfs[i].src_path = first
        /\ Built =>
              /\ \A i \in EntriesFor(manifest.airports, id) :
                    CarriesFile(manifest.airports[i], first)
              /\ template.kind = "none" =>
                    Cardinality(EntriesFor(manifest.airports, id)) = 1
              /\ template.kind = "list" =>
                    Cardinality(EntriesFor(manifest.airports, id)) =
                    Cardinality({i \in 1..Len(template.airports) :
                                    /\ template.airports[i].isDict
                                    /\ template_iata(template.airports[i].d) = id})

C7_Witness ==
    /\ pc = "done"
    /\ {CandidatePaths[1], CandidatePaths[3]} \subseteq Matching
    /\ source[CandidatePaths[1]].content # source[CandidatePaths[3]].content
    /\ EntriesFor(manifest.airports, <<65>>) # {}

\* a template entry the output must keep: an object whose normalized identifier is
\* non-empty and is the identifier of a scanned file
Kept(a) ==
    /\ a.isDict
    /\ template_iata(a.d) # <<>>
    /\ \E p \in Matching : IdOf(p) = template_iata(a.d)

KeptEntries == SelectSeq(template.airports, Kept)

\* C8: with a template, the manifest's entries are the kept template entries, in
\* the template's order: as many, the j-th with the j-th kept entry's identifier
\* and descriptive fields.
C8_TemplateOrderKept ==
    (Built /\ template.kind = "list")
        => LET out == manifest.airports
               K == KeptEntries
           IN  /\ Len(out) = Len(K)
               /\ \A j \in 1..Len(out) :
                     /\ j <= Len(K)
                     /\ out[j]["iata"] = template_iata(K[j].d)
                     /\ \A k \in DOMAIN K[j].d \ {"iata", "pdf"} :
                           out[j][k] = K[j].d[k]

C8_Witness ==
    /\ pc = "done"
    /\ template.kind = "list"
    /\ Len(template.airports) = 2
    /\ Len(manifest.airports) = 2
    /\ manifest.airports[1]["iata"] = <<66>>
    /\ manifest.airports[2]["iata"] = <<65>>

\* C9 as stated: a merged entry has every field of its template entry with the
\* template's value.
C9_NoFieldOverwritten ==
    (Built /\ template.kind = "list")
        => LET K == KeptEntries
           IN  Len(manifest.airports) = Len(K) =>
                  \A j \in 1..Len(K) :
                     \A k \in DOMAIN K[j].d :
                        manifest.airports[j][k] = K[j].d[k]

\* C9, amended: a merged entry has every field of its template entry other than
\* "iata" and "pdf" with the template's value; "iata" is the normalized
\* identifier, "pdf" the block of the scanned document; "icao" and "name" are the
\* identifier and "city" the empty string exactly where the template lacks them;
\* and the entry has no other field.
C9_SuppliedFieldsKept ==
    (Built /\ template.kind = "list")
        => LET K == KeptEntries
           IN  /\ Len(manifest.airports) = Len(K)
               /\ \A j \in 1..Len(manifest.airports) :
                     j <= Len(K) =>
                     LET a == K[j].d
                         e == manifest.airports[j]
                         id == e["iata"]
                     IN  /\ id = template_iata(a)
                         /\ DOMAIN e =
                               DOMAIN a \cup {"iata", "icao", "name", "city", "pdf"}
                         /\ \A k \in DOMAIN a \ {"iata", "pdf"} : e[k] = a[k]
                         /\ e["pdf"].url \in DOMAIN sitePdfs
                         /\ CarriesFile(e, FirstPath(id))
                         /\ \A k \in {"icao", "name"} \ DOMAIN a : e[k] = id
                         /\ "city" \notin DOMAIN a => e["city"] = <<>>

C9_Witness ==
    /\ pc = "done"
    /\ template.kind = "list"
    /\ \E j \in 1..Len(manifest.airports) : manifest.airports[j]["name"] = <<66, 110>>
    /\ \E j \in 1..Len(manifest.airports) : manifest.airports[j]["name"] = <<65>>

\* C10: every entry's url is the path pdfs/<iata>/<sha256> of its own identifier
\* and hash; no step changes or removes a file already under pdfs/; a file that
\* appears under pdfs/ is at the path of a scanned document and is a copy of its
\* source file; and only the operator, between runs, changes the source folder.
C10_PublisherFrame ==
    /\ [](\A i \in 1..Len(airports_out) :
             airports_out[i]["pdf"].url =
                <<"pdfs", airports_out[i]["iata"], airports_out[i]["pdf"].sha256>>)
    /\ [][/\ \A k \in DOMAIN sitePdfs :
                k \in DOMAIN sitePdfs' /\ sitePdfs'[k] = sitePdfs[k]
          /\ \A k \in DOMAIN sitePdfs' \ DOMAIN sitePdfs :
                \E i \in 1..Len(pdfs) :
                   /\ k = <<"pdfs", pdfs[i].iata, pdfs[i].sha256>>
                   /\ sitePdfs'[k] = source[pdfs[i].src_path]
          /\ (source' # source \/ srcExists' # srcExists)
                => (pc = "start" /\ ~edited /\ edited')]_vars

C10_Witness ==
    /\ pc = "done"
    /\ runs = 2
    /\ \E i \in 1..Len(manifest.airports) :
          LET u == manifest.airports[i]["pdf"].url
          IN  /\ u \in DOMAIN siteAtStart.pdfs
              /\ u \in DOMAIN sitePdfs
              /\ sitePdfs[u].content = <<0>>
    /\ Cardinality(DOMAIN sitePdfs) > Cardinality(DOMAIN siteAtStart.pdfs)

====
